---- MODULE Spec2Model ----
(***************************************************************************)
(* Model of the F-35 NEXUS-D / K1-Saber diagnostic suite (src/src/systems). *)
(*                                                                         *)
(* Numbers: every reading is an integer in thousandths of its unit         *)
(* (269.5 V is 269500), so the comparisons of the source are exact.        *)
(*                                                                         *)
(* Lists are objects: a field or a returned value holds a reference into   *)
(* heap, so that two names for one Python list see each other's appends.   *)
(*                                                                         *)
(* The process-wide random source is a state variable: a tape of unit      *)
(* samples fixed by the unknown seed, read cyclically; a draw returns the  *)
(* low or the high end of its range.                                       *)
(***************************************************************************)
EXTENDS Integers, Sequences, FiniteSets, TLC

VARIABLES rng, heap, checker, weapons, engine, saber, rets, ops, main, fn_in, fn_out

vars == <<rng, heap, checker, weapons, engine, saber, rets, ops, main, fn_in, fn_out>>

(* ---------------------------------------------------------------- bounds *)
TapeLen == 3
MaxOps == 2
MaxSummaryLen == 3

(* ------------------------------------------------------------ utilities *)
None == <<>>
Some(v) == <<v>>

RECURSIVE CountIf(_, _)
CountIf(seq, st) ==
    IF seq = <<>> THEN 0
    ELSE (IF seq[1].status = st THEN 1 ELSE 0) + CountIf(Tail(seq), st)

RECURSIVE SeqsUpTo(_, _)
SeqsUpTo(S, n) ==
    IF n = 0 THEN {<<>>}
    ELSE LET shorter == SeqsUpTo(S, n - 1)
         IN  shorter \cup {Append(s, x) : s \in {t \in shorter : Len(t) = n - 1}, x \in S}

(* -------------------------------------------------------- random source *)
Bit(k) == rng.tape[((rng.pos + k - 1) % TapeLen) + 1]
Uniform(lo, hi, k) == IF Bit(k) = 0 THEN lo ELSE hi
RandInt(lo, hi, k) == IF Bit(k) = 0 THEN lo ELSE hi
Advance(n) == [rng EXCEPT !.pos = (@ + n) % TapeLen]

(* ===================================================== system_check.py *)
SystemStatus == {"NOMINAL", "WARNING", "FAULT", "OFFLINE", "INITIALIZING"}

CheckResult(system_name, status, value) ==
    [system_name |-> system_name, status |-> status, value |-> value]

(* The threshold expressions of the check groups, one per numeric check. *)
MainPowerBusStatusStrict(v) == IF 269000 < v /\ v < 271000 THEN "NOMINAL" ELSE "WARNING"
MainPowerBusStatus(v) == IF 269000 <= v /\ v <= 271000 THEN "NOMINAL" ELSE "WARNING"
PowerCapacityStatus(v) == IF v >= 600000 THEN "NOMINAL" ELSE "WARNING"
SystemEfficiencyStatus(v) == IF v >= 92000 THEN "NOMINAL" ELSE "WARNING"
ThermalManagementStatus(v) == IF v <= 50000 THEN "NOMINAL" ELSE "WARNING"
EncryptionThroughputStatus(v) == IF v >= 1200 THEN "NOMINAL" ELSE "WARNING"
CryptoLatencyStatus(v) == IF v <= 18000 THEN "NOMINAL" ELSE "WARNING"
MADLIntegrityStatus(v) == IF v >= 99990 THEN "NOMINAL" ELSE "WARNING"
NullSteeringArrayStatus(v) == IF v >= 30000 THEN "NOMINAL" ELSE "WARNING"
ArrayElementsStatus(v) == IF v >= 60000 THEN "NOMINAL" ELSE "WARNING"
QuantumGlassHMDStatus(v) == IF v <= 12000 THEN "NOMINAL" ELSE "WARNING"
FieldOfViewStatus(v) == IF v >= 150000 THEN "NOMINAL" ELSE "WARNING"
PhotonicProcessorStatus(v) == IF v >= 1000 THEN "NOMINAL" ELSE "WARNING"
MetasurfaceTilesStatus(v) == IF v >= 95000 THEN "NOMINAL" ELSE "WARNING"
RCSSignatureStatus(v) == IF v <= -40000 THEN "NOMINAL" ELSE "WARNING"

(* The records of each group, in the order the group logs them. *)
PowerRecords(voltage, capacity, efficiency, temp) ==
    << CheckResult("Main Power Bus", MainPowerBusStatus(voltage), Some(voltage)),
       CheckResult("Power Capacity", PowerCapacityStatus(capacity), Some(capacity)),
       CheckResult("System Efficiency", SystemEfficiencyStatus(efficiency), Some(efficiency)),
       CheckResult("Thermal Management", ThermalManagementStatus(temp), Some(temp)) >>

CryptoRecords(throughput, latency) ==
    << CheckResult("Encryption Throughput", EncryptionThroughputStatus(throughput), Some(throughput)),
       CheckResult("Crypto Latency", CryptoLatencyStatus(latency), Some(latency)),
       CheckResult("Key Store", "NOMINAL", None),
       CheckResult("Type 1 Cert", "NOMINAL", None) >>

EwRecords(integrity, suppression, elements_active) ==
    << CheckResult("MADL Integrity", MADLIntegrityStatus(integrity), Some(integrity)),
       CheckResult("Null-Steering Array", NullSteeringArrayStatus(suppression), Some(suppression)),
       CheckResult("Array Elements", ArrayElementsStatus(elements_active), Some(elements_active)) >>

PilotRecords(latency, fov, flops) ==
    << CheckResult("Quantum Glass HMD", QuantumGlassHMDStatus(latency), Some(latency)),
       CheckResult("Field of View", FieldOfViewStatus(fov), Some(fov)),
       CheckResult("Photonic Processor", PhotonicProcessorStatus(flops), Some(flops)),
       CheckResult("Ghostmark DSS", "NOMINAL", None) >>

WeaponsRecords ==
    << CheckResult("Weapons Bay Doors", "NOMINAL", None),
       CheckResult("Fire Control System", "NOMINAL", None),
       CheckResult("HYPER-HAWK Interface", "NOMINAL", None) >>

MaterialsRecords(tiles_active, rcs) ==
    << CheckResult("Self-Healing Composites", "NOMINAL", None),
       CheckResult("Metasurface Tiles", MetasurfaceTilesStatus(tiles_active), Some(tiles_active)),
       CheckResult("RCS Signature", RCSSignatureStatus(rcs), Some(rcs)) >>

(* The groups with their readings drawn from the random source, the k-th  *)
(* draw of the call being draw number first + k - 1.                      *)
PowerDraws == 4
CryptoDraws == 2
EwDraws == 3
PilotDraws == 3
MaterialsDraws == 2

SampledPower(first) ==
    PowerRecords(Uniform(269500, 270500, first), Uniform(595000, 610000, first + 1),
                 Uniform(91500, 93500, first + 2), Uniform(38000, 45000, first + 3))
SampledCrypto(first) ==
    CryptoRecords(Uniform(1150, 1250, first), Uniform(16000, 20000, first + 1))
SampledEw(first) ==
    EwRecords(Uniform(99980, 99999, first), Uniform(28000, 32000, first + 1),
              RandInt(62000, 64000, first + 2))
SampledPilot(first) ==
    PilotRecords(Uniform(10000, 14000, first), Uniform(148000, 152000, first + 1),
                 Uniform(950, 1050, first + 2))
SampledMaterials(first) ==
    MaterialsRecords(RandInt(98000, 100000, first), Uniform(-42000, -38000, first + 1))

(* _log_check: one record appended to the list object, the counter and    *)
(* the flag maintained.                                                   *)
LogCheckOnDeduplicating(st, result) ==
    [ list |-> IF \E i \in 1..Len(st.list) : st.list[i].system_name = result.system_name
               THEN st.list ELSE Append(st.list, result),
      systems_checked |-> st.systems_checked + 1,
      all_passed |-> IF result.status = "FAULT" THEN FALSE ELSE st.all_passed ]
LogCheckOnWarningFails(st, result) ==
    [ list |-> Append(st.list, result),
      systems_checked |-> st.systems_checked + 1,
      all_passed |-> IF result.status \in {"FAULT", "WARNING"} THEN FALSE ELSE st.all_passed ]
LogCheckOnCountingMeasured(st, result) ==
    [ list |-> Append(st.list, result),
      systems_checked |-> IF result.value = None THEN st.systems_checked ELSE st.systems_checked + 1,
      all_passed |-> IF result.status = "FAULT" THEN FALSE ELSE st.all_passed ]
LogCheckOn(st, result) ==
    [ list |-> Append(st.list, result),
      systems_checked |-> st.systems_checked + 1,
      all_passed |-> IF result.status = "FAULT" THEN FALSE ELSE st.all_passed ]

RECURSIVE LogAll(_, _)
LogAll(st, results) ==
    IF results = <<>> THEN st
    ELSE LogAll(LogCheckOn(st, Head(results)), Tail(results))

CheckerView ==
    [ list |-> heap[checker.check_results],
      systems_checked |-> checker.systems_checked,
      all_passed |-> checker.all_passed ]

(* The summary step of run_full_check over the accumulated list. *)
SummarizeOnWarnings(records) ==
    [ nominal |-> CountIf(records, "NOMINAL"),
      warnings |-> CountIf(records, "WARNING"),
      faults |-> CountIf(records, "FAULT"),
      overall_status |-> IF CountIf(records, "WARNING") = 0 THEN "PASS" ELSE "FAIL" ]
Summarize(records) ==
    [ nominal |-> CountIf(records, "NOMINAL"),
      warnings |-> CountIf(records, "WARNING"),
      faults |-> CountIf(records, "FAULT"),
      overall_status |-> IF CountIf(records, "FAULT") = 0 THEN "PASS" ELSE "FAIL" ]


FullCheckDraws == 14

(* run_full_check, lines 270-287: the six groups, in this order. *)
FullCheckRecordsCryptoFirst(first) ==
    SampledCrypto(first + 4) \o SampledPower(first) \o SampledEw(first + 6)
        \o SampledPilot(first + 9) \o WeaponsRecords \o SampledMaterials(first + 12)
FullCheckRecords(first) ==
    SampledPower(first) \o SampledCrypto(first + 4) \o SampledEw(first + 6)
        \o SampledPilot(first + 9) \o WeaponsRecords \o SampledMaterials(first + 12)

(* run_full_check on a checker in state st: the state it leaves and the   *)
(* dictionary it returns (the "results" entry is the list object itself). *)
RunFullCheckOn(st, first) ==
    LET after == LogAll(st, FullCheckRecords(first))
        s == Summarize(after.list)
    IN  [ after |-> after,
          report |-> [ total_checks |-> after.systems_checked,
                       nominal |-> s.nominal,
                       warnings |-> s.warnings,
                       faults |-> s.faults,
                       overall_status |-> s.overall_status,
                       all_passed |-> after.all_passed ] ]

NewChecker == [list |-> <<>>, systems_checked |-> 0, all_passed |-> TRUE]

(* A call of one group: the records are logged on the checker and also    *)
(* collected in a list of the call's own, which is returned.              *)
GroupCall(name, records, draws) ==
    /\ ops < MaxOps
    /\ LET after == LogAll(CheckerView, records)
       IN  /\ heap' = Append([heap EXCEPT ![checker.check_results] = after.list], records)
           /\ checker' = [checker EXCEPT !.systems_checked = after.systems_checked,
                                         !.all_passed = after.all_passed]
           /\ rets' = Append(rets, [kind |-> "records", op |-> name,
                                    ref |-> Len(heap) + 1, at_return |-> records,
                                    produced |-> records])
    /\ rng' = Advance(draws)
    /\ ops' = ops + 1
    /\ UNCHANGED <<weapons, engine, saber, main, fn_in, fn_out>>

CheckPowerSystem == GroupCall("check_power_system", SampledPower(1), PowerDraws)
CheckCryptoModule == GroupCall("check_crypto_module", SampledCrypto(1), CryptoDraws)
CheckEwSuite == GroupCall("check_ew_suite", SampledEw(1), EwDraws)
CheckPilotInterface == GroupCall("check_pilot_interface", SampledPilot(1), PilotDraws)
CheckWeaponsSystems == GroupCall("check_weapons_systems", WeaponsRecords, 0)
CheckMaterialsIntegrity == GroupCall("check_materials_integrity", SampledMaterials(1), MaterialsDraws)

(* _log_check called with a record of the caller's. *)
LogCheck ==
    /\ ops < MaxOps
    /\ \E status \in SystemStatus :
         LET after == LogCheckOn(CheckerView, CheckResult("Main Power Bus", status, None))
         IN  /\ heap' = [heap EXCEPT ![checker.check_results] = after.list]
             /\ checker' = [checker EXCEPT !.systems_checked = after.systems_checked,
                                           !.all_passed = after.all_passed]
    /\ rets' = Append(rets, [kind |-> "none", op |-> "_log_check"])
    /\ ops' = ops + 1
    /\ UNCHANGED <<rng, weapons, engine, saber, main, fn_in, fn_out>>

RunFullCheck ==
    /\ ops < MaxOps
    /\ LET r == RunFullCheckOn(CheckerView, 1)
       IN  /\ heap' = [heap EXCEPT ![checker.check_results] = r.after.list]
           /\ checker' = [checker EXCEPT !.systems_checked = r.after.systems_checked,
                                         !.all_passed = r.after.all_passed]
           /\ rets' = Append(rets, [kind |-> "report", op |-> "run_full_check",
                                    report |-> r.report,
                                    ref |-> checker.check_results,
                                    at_return |-> r.after.list])
    /\ rng' = Advance(FullCheckDraws)
    /\ ops' = ops + 1
    /\ UNCHANGED <<weapons, engine, saber, main, fn_in, fn_out>>


(* ================================================ theoretical_systems.py *)
TheoreticalCheckResult(system_name, status, stability_index) ==
    [system_name |-> system_name, status |-> status, stability_index |-> stability_index]

DirectedEnergyRecords ==
    << TheoreticalCheckResult("High-Energy Laser (HEL-X1)", "STANDBY", 98500),
       TheoreticalCheckResult("Active Denial Microwave", "STANDBY", 99200) >>
EmpRecords ==
    << TheoreticalCheckResult("Focused EMP Generator", "STANDBY", 100000),
       TheoreticalCheckResult("CHAMP Variant", "NOMINAL", 97800) >>
PlasmaRecords ==
    << TheoreticalCheckResult("Plasma Containment Array", "CALIBRATING", 87300),
       TheoreticalCheckResult("Plasma Bolt Accelerator", "THEORETICAL", 72100) >>
QuantumRecords ==
    << TheoreticalCheckResult("Quantum Entanglement Disruptor", "THEORETICAL", 45200),
       TheoreticalCheckResult("Probability Wave Collapser", "THEORETICAL", 33800) >>
GravitonRecords ==
    << TheoreticalCheckResult("Graviton Beam Projector", "THEORETICAL", 12400),
       TheoreticalCheckResult("Localized Gravity Well Generator", "THEORETICAL", 8700) >>

(* AdvancedWeaponsChecker.run_full_check, lines 202-206. *)
AdvancedWeaponsRecords ==
    DirectedEnergyRecords \o EmpRecords \o PlasmaRecords \o QuantumRecords \o GravitonRecords

(* A group of AdvancedWeaponsChecker: _log appends each record to         *)
(* self.results, and self.results itself is what the group returns.       *)
MaxWeaponsOps == 3

WeaponsGroupCall(name, records) ==
    /\ ops < MaxWeaponsOps
    /\ heap' = [heap EXCEPT ![weapons.results] = @ \o records]
    /\ rets' = Append(rets, [kind |-> "records", op |-> name,
                             ref |-> weapons.results,
                             at_return |-> heap[weapons.results] \o records,
                             produced |-> records])
    /\ ops' = ops + 1
    /\ UNCHANGED <<rng, checker, weapons, engine, saber, main, fn_in, fn_out>>

CheckDirectedEnergyWeapons == WeaponsGroupCall("check_directed_energy_weapons", DirectedEnergyRecords)
CheckEmpSystems == WeaponsGroupCall("check_emp_systems", EmpRecords)
CheckPlasmaWeapons == WeaponsGroupCall("check_plasma_weapons", PlasmaRecords)
CheckQuantumWeapons == WeaponsGroupCall("check_quantum_weapons", QuantumRecords)
CheckGravitonWeapons == WeaponsGroupCall("check_graviton_weapons", GravitonRecords)

AdvancedWeaponsRunFullCheck ==
    /\ ops < MaxWeaponsOps
    /\ LET list == heap[weapons.results] \o AdvancedWeaponsRecords
       IN  /\ heap' = [heap EXCEPT ![weapons.results] = list]
           /\ rets' = Append(rets, [kind |-> "weapons_report", op |-> "weapons_run_full_check",
                                    count |-> Len(list),
                                    ref |-> weapons.results,
                                    at_return |-> list])
    /\ ops' = ops + 1
    /\ UNCHANGED <<rng, checker, weapons, engine, saber, main, fn_in, fn_out>>


(* =================================================== engine_simulation.py *)
EngineState == {"OFF", "BATTERY", "APU_START", "APU_RUNNING", "FUEL_PRIMING",
                "IGNITION", "STARTER_ENGAGED", "IDLE", "RUNNING", "FAULT"}
EngineCheckStatus == {"PASS", "WARN", "FAIL"}

EngineParameter(name, value, min_limit, max_limit, status) ==
    [name |-> name, value |-> value, min_limit |-> min_limit,
     max_limit |-> max_limit, status |-> status]

(* F135EngineSimulator.__init__; check_results is held beside it, as a    *)
(* reference. Of the parameters, those only displayed are left out.       *)
NewEngine ==
    [ state |-> "OFF", startup_complete |-> FALSE,
      ff |-> 0, thrust |-> 0, oil_temp |-> 20000,
      phases |-> <<>> ]

FuelPressureStatus(v) == IF 35000 <= v /\ v <= 45000 THEN "PASS" ELSE "FAIL"

(* The four parameters run_engine_check appends, lines 137-162. *)
EngineCheckRecordsClassified(fuel_press, fuel_temp, oil_level, oil_temp) ==
    << EngineParameter("Fuel Pressure", fuel_press, 35000, 45000, FuelPressureStatus(fuel_press)),
       EngineParameter("Fuel Temperature", fuel_temp, -40000, 60000,
                       IF -40000 <= fuel_temp /\ fuel_temp <= 60000 THEN "PASS" ELSE "WARN"),
       EngineParameter("Oil Level", oil_level, 80000, 100000,
                       IF 80000 <= oil_level /\ oil_level <= 100000 THEN "PASS" ELSE "WARN"),
       EngineParameter("Oil Temperature", oil_temp, -40000, 150000,
                       IF -40000 <= oil_temp /\ oil_temp <= 150000 THEN "PASS" ELSE "WARN") >>
EngineCheckRecords(fuel_press, fuel_temp, oil_level, oil_temp) ==
    << EngineParameter("Fuel Pressure", fuel_press, 35000, 45000, FuelPressureStatus(fuel_press)),
       EngineParameter("Fuel Temperature", fuel_temp, -40000, 60000, "PASS"),
       EngineParameter("Oil Level", oil_level, 80000, 100000, "PASS"),
       EngineParameter("Oil Temperature", oil_temp, -40000, 150000, "PASS") >>

(* The summary step of run_engine_check, lines 210-237. *)
EngineSummary(records) ==
    LET overall_status == IF CountIf(records, "FAIL") = 0 THEN "PASS" ELSE "FAIL"
    IN  [ pass_count |-> CountIf(records, "PASS"),
          warn_count |-> CountIf(records, "WARN"),
          fail_count |-> CountIf(records, "FAIL"),
          status |-> overall_status,
          passed |-> (overall_status = "PASS") ]

EngineCheckDraws == 12

(* run_engine_check on engine e with the four readings it records: the    *)
(* engine afterwards, the new list and the returned dictionary.           *)
RunEngineCheckOn(e, fuel_press, fuel_temp, oil_level, oil_temp) ==
    LET checks == EngineCheckRecords(fuel_press, fuel_temp, oil_level, oil_temp)
        s == EngineSummary(checks)
    IN  [ after |-> [e EXCEPT !.oil_temp = oil_temp],
          checks |-> checks,
          result |-> [status |-> s.status, passed |-> s.passed] ]

(* _update_parameter applied n times with the same target, the rate in    *)
(* thousandths.                                                           *)
RECURSIVE UpdateParameter(_, _, _, _)
UpdateParameter(current, target, rate, n) ==
    IF n = 0 THEN current
    ELSE UpdateParameter(current + ((target - current) * rate) \div 1000, target, rate, n - 1)

StartupPhasesSkippingApu ==
    << "BATTERY", "APU_START", "FUEL_PRIMING",
       "IGNITION", "STARTER_ENGAGED", "IDLE", "RUNNING" >>
StartupPhases ==
    << "BATTERY", "APU_START", "APU_RUNNING", "FUEL_PRIMING",
       "IGNITION", "STARTER_ENGAGED", "IDLE", "RUNNING" >>

(* startup_sequence: the states it assigns, in order, are appended to     *)
(* phases; fuel flow is primed to 96 * 5 and then stabilised at idle in   *)
(* the 26 passes of the phase 6 loop. It returns True.                    *)
StartupSequenceOn(e) ==
    [e EXCEPT !.phases = @ \o StartupPhases,
              !.state = "RUNNING",
              !.startup_complete = TRUE,
              !.ff = UpdateParameter(480000, 1200000, 150, 26),
              !.oil_temp = UpdateParameter(@, 65000, 100, 26),
              !.thrust = UpdateParameter(@, 5500000, 150, 26)]

(* shutdown_sequence, lines 379-380 and 392-393. *)
ShutdownSequenceOnKeepingFlag(e) ==
    [e EXCEPT !.phases = Append(@, "OFF"),
              !.state = "OFF",
              !.ff = 0,
              !.thrust = 0]
ShutdownSequenceOn(e) ==
    [e EXCEPT !.phases = Append(@, "OFF"),
              !.state = "OFF",
              !.startup_complete = FALSE,
              !.ff = 0,
              !.thrust = 0]

(* run_engine_check_and_startup on an engine of its own, with the         *)
(* readings of its check: the engine at return and the dictionary.        *)
RunEngineCheckAndStartupUngated(fuel_press, fuel_temp, oil_level, oil_temp) ==
    LET c == RunEngineCheckOn(NewEngine, fuel_press, fuel_temp, oil_level, oil_temp)
    IN  [ engine |-> StartupSequenceOn(c.after),
          checks |-> c.checks,
          result |-> [ check_result |-> c.result,
                       success |-> TRUE,
                       message |-> "Engine startup successful" ] ]
RunEngineCheckAndStartupRaising(fuel_press, fuel_temp, oil_level, oil_temp) ==
    LET c == RunEngineCheckOn(NewEngine, fuel_press, fuel_temp, oil_level, oil_temp)
    IN  IF ~c.result.passed
        THEN [ engine |-> c.after,
               checks |-> c.checks,
               result |-> [raised |-> "RuntimeError"] ]
        ELSE [ engine |-> StartupSequenceOn(c.after),
               checks |-> c.checks,
               result |-> [ check_result |-> c.result,
                            success |-> TRUE,
                            message |-> "Engine startup successful" ] ]
RunEngineCheckAndStartupOn(fuel_press, fuel_temp, oil_level, oil_temp) ==
    LET c == RunEngineCheckOn(NewEngine, fuel_press, fuel_temp, oil_level, oil_temp)
    IN  IF ~c.result.passed
        THEN [ engine |-> c.after,
               checks |-> c.checks,
               result |-> [ check_result |-> c.result,
                            success |-> FALSE,
                            message |-> "Engine check failed - startup inhibited" ] ]
        ELSE [ engine |-> StartupSequenceOn(c.after),
               checks |-> c.checks,
               result |-> [ check_result |-> c.result,
                            success |-> TRUE,
                            message |-> "Engine startup successful" ] ]

(* Section 2 of run_complete_simulation, lines 145-172: the engine at the *)
(* end of the section and the entries written to results["systems"].      *)
EngineSectionOn(fuel_press, fuel_temp, oil_level, oil_temp) ==
    LET c == RunEngineCheckOn(NewEngine, fuel_press, fuel_temp, oil_level, oil_temp)
        started == StartupSequenceOn(c.after)
    IN  IF c.result.passed
        THEN [ engine |-> ShutdownSequenceOn(started),
               engine_check |-> c.result,
               engine_startup |-> [success |-> TRUE, final_state |-> started.state],
               engine_shutdown |-> Some([success |-> TRUE]) ]
        ELSE [ engine |-> c.after,
               engine_check |-> c.result,
               engine_startup |-> [success |-> FALSE, error |-> "Pre-check failed"],
               engine_shutdown |-> None ]


(* ============================================================ k1_saber.py *)
K1SystemStatus == {"DORMANT", "INITIALIZING", "ATTUNED", "ACTIVE", "PROJECTING", "FAULT", "UNBOUND"}
BladeState == {"RETRACTED", "FORMING", "STABLE", "DEFLECTING", "CUTTING"}
ComponentKeys == {"HILT", "RESONATOR", "EMITTER", "CONTAINMENT", "CELL"}

K1Component(status, integrity) == [status |-> status, integrity |-> integrity]

(* K1SaberSystem.__init__ and _initialize_components. Lengths are in      *)
(* thousandths of a metre.                                                *)
NewSaber ==
    [ components |-> [k \in ComponentKeys |-> K1Component("DORMANT", 100000)],
      attunement |-> None,
      blade_state |-> "RETRACTED",
      blade_length |-> 0,
      target_blade_length |-> 1000,
      operator_id |-> None,
      k1_entity_active |-> FALSE ]

(* The comparisons of run_component_diagnostics. *)
HiltStatus(chassis_integrity) == IF chassis_integrity > 95000 THEN "ATTUNED" ELSE "FAULT"
HiltPassed(chassis_integrity) == chassis_integrity > 95000
ResonatorPassed(crystal_purity) == crystal_purity > 99900
EmitterPassed(coil_alignment) == coil_alignment > 99500
ContainmentPassed(deflection_stability) == deflection_stability > 99000
CellPassed(cell_resonance) == cell_resonance > 98000

DiagnosticsDraws == 15

(* run_component_diagnostics on saber s with the five readings it keeps. *)
RunComponentDiagnosticsOn(s, chassis_integrity, crystal_purity, coil_alignment, deflection_stability, cell_resonance) ==
    LET results == << <<"Hilt Chassis", HiltPassed(chassis_integrity)>>,
                      <<"Harmonizing Resonator", ResonatorPassed(crystal_purity)>>,
                      <<"Dissonance Emitter", EmitterPassed(coil_alignment)>>,
                      <<"Containment Emitter", ContainmentPassed(deflection_stability)>>,
                      <<"K1 Energy Cell", CellPassed(cell_resonance)>> >>
        components ==
            [k \in ComponentKeys |->
                CASE k = "HILT" -> K1Component(HiltStatus(chassis_integrity), chassis_integrity)
                  [] k = "RESONATOR" -> K1Component("ATTUNED", crystal_purity)
                  [] k = "EMITTER" -> K1Component("ATTUNED", coil_alignment)
                  [] k = "CONTAINMENT" -> K1Component("ATTUNED", deflection_stability)
                  [] k = "CELL" -> K1Component("ATTUNED", cell_resonance)]
    IN  [ after |-> [s EXCEPT !.components = components],
          result |-> [ all_passed |-> (\A i \in 1..Len(results) : results[i][2]),
                       results |-> results ] ]

SampledDiagnosticsOn(s, first) ==
    RunComponentDiagnosticsOn(s, Uniform(98500, 100000, first), Uniform(99950, 99999, first + 2),
                              Uniform(99800, 100000, first + 5), Uniform(99500, 100000, first + 8),
                              Uniform(99000, 100000, first + 11))

ImprintingDraws == 2

(* run_axiom_imprinting_check. *)
RunAxiomImprintingCheckOn(s) ==
    [ after |-> [s EXCEPT !.k1_entity_active = TRUE],
      result |-> [entity_active |-> TRUE] ]

AttunementDraws == 4

(* run_attunement_simulation for operator_id, with the two readings kept  *)
(* in the AttunementResult.                                               *)
RunAttunementSimulationOn(s, operator_id, neural_map_depth, harmony_index) ==
    LET attunement == [ state |-> "BONDED", harmony_index |-> harmony_index,
                        quantum_entanglement |-> TRUE, biosignature_locked |-> TRUE,
                        neural_sync |-> neural_map_depth ]
    IN  [ after |-> [s EXCEPT !.operator_id = Some(operator_id),
                              !.attunement = Some(attunement),
                              !.components = [k \in ComponentKeys |->
                                                 [s.components[k] EXCEPT !.status = "ATTUNED"]]],
          result |-> [operator_id |-> operator_id, success |-> TRUE] ]

SampledAttunementOn(s, operator_id, first) ==
    RunAttunementSimulationOn(s, operator_id, Uniform(97000, 100000, first + 1),
                              Uniform(98000, 100000, first + 3))

FormationDraws == 2

Attuned(s) == s.attunement # None /\ s.attunement[1].state = "BONDED"

(* run_blade_formation_test; draws counts the readings it consumed. *)
RunBladeFormationTestUnguarded(s) ==
    [ after |-> [s EXCEPT !.blade_length = s.target_blade_length,
                          !.blade_state = "STABLE"],
      draws |-> FormationDraws,
      result |-> [success |-> TRUE, error |-> ""] ]
RunBladeFormationTestOn(s) ==
    IF ~Attuned(s)
    THEN [ after |-> s, draws |-> 0,
           result |-> [success |-> FALSE, error |-> "Not attuned"] ]
    ELSE [ after |-> [s EXCEPT !.blade_length = s.target_blade_length,
                               !.blade_state = "STABLE"],
           draws |-> FormationDraws,
           result |-> [success |-> TRUE, error |-> ""] ]

(* run_tactical_capability_test. *)
RunTacticalCapabilityTestUnguarded(s) ==
    [ after |-> [s EXCEPT !.blade_state = "STABLE"],
      result |-> [success |-> TRUE, error |-> ""] ]
RunTacticalCapabilityTestLeavingDeflecting(s) ==
    IF s.blade_state # "STABLE"
    THEN [ after |-> s, result |-> [success |-> FALSE, error |-> "Blade not active"] ]
    ELSE [ after |-> [s EXCEPT !.blade_state = "DEFLECTING"],
           result |-> [success |-> TRUE, error |-> ""] ]
RunTacticalCapabilityTestOn(s) ==
    IF s.blade_state # "STABLE"
    THEN [ after |-> s, result |-> [success |-> FALSE, error |-> "Blade not active"] ]
    ELSE [ after |-> [s EXCEPT !.blade_state = "STABLE"],
           result |-> [success |-> TRUE, error |-> ""] ]

(* run_blade_retraction. *)
RunBladeRetractionOn(s) ==
    IF s.blade_state = "RETRACTED"
    THEN [ after |-> s, result |-> [success |-> TRUE, state |-> s.blade_state] ]
    ELSE [ after |-> [s EXCEPT !.blade_state = "RETRACTED", !.blade_length = 0],
           result |-> [success |-> TRUE, state |-> "RETRACTED"] ]

(* K1SaberSystem.run_full_system_check, lines 622-645: the six steps in   *)
(* order, each on the state the one before left.                          *)
RunFullSystemCheckOn(s, operator_id, first) ==
    LET d == SampledDiagnosticsOn(s, first)
        x == RunAxiomImprintingCheckOn(d.after)
        a == SampledAttunementOn(x.after, operator_id, first + DiagnosticsDraws + ImprintingDraws)
        b == RunBladeFormationTestOn(a.after)
        t == RunTacticalCapabilityTestOn(b.after)
        r == RunBladeRetractionOn(t.after)
    IN  [ after |-> r.after,
          draws |-> DiagnosticsDraws + ImprintingDraws + AttunementDraws + b.draws,
          result |-> [ components |-> d.result, axiom |-> x.result, attunement |-> a.result,
                       blade |-> b.result, tactical |-> t.result, retraction |-> r.result ] ]


(* The records of the other theoretical checkers' run_check, in order;    *)
(* a stability index below one thousandth is kept as 0.                   *)
PhaseShiftingRecords ==
    << TheoreticalCheckResult("Phase Oscillator Core", "THEORETICAL", 23400),
       TheoreticalCheckResult("Temporal Phase Lock", "THEORETICAL", 31200),
       TheoreticalCheckResult("Brane Detector Array", "CALIBRATING", 67800),
       TheoreticalCheckResult("Membrane Phasing Coils", "THEORETICAL", 15300),
       TheoreticalCheckResult("Coherence Field Generator", "THEORETICAL", 19700),
       TheoreticalCheckResult("Decoherence Suppressor", "THEORETICAL", 42100) >>
CloakingRecords ==
    << TheoreticalCheckResult("Adaptive Metasurface Array", "NOMINAL", 94200),
       TheoreticalCheckResult("Negative Refractive Index Layer", "STANDBY", 89100),
       TheoreticalCheckResult("Ionization Field Generator", "STANDBY", 78500),
       TheoreticalCheckResult("Radar Absorption Plasma", "STANDBY", 82300),
       TheoreticalCheckResult("Electrochromic Skin", "NOMINAL", 96800),
       TheoreticalCheckResult("Active Light Cancellation", "CALIBRATING", 91200),
       TheoreticalCheckResult("IR Signature Suppressor", "NOMINAL", 97500),
       TheoreticalCheckResult("Thermal Redistribution Grid", "NOMINAL", 98200),
       TheoreticalCheckResult("Gravity Lens Array", "THEORETICAL", 5200),
       TheoreticalCheckResult("Photon Path Deflector", "THEORETICAL", 3100) >>
TeleportationRecords ==
    << TheoreticalCheckResult("Entanglement Generator", "THEORETICAL", 45000),
       TheoreticalCheckResult("Quantum State Teleporter", "THEORETICAL", 38200),
       TheoreticalCheckResult("Lattice Distortion Field", "THEORETICAL", 8500),
       TheoreticalCheckResult("Casimir Effect Amplifier", "THEORETICAL", 12300),
       TheoreticalCheckResult("Wormhole Initiator", "THEORETICAL", 10),
       TheoreticalCheckResult("Exotic Matter Containment", "OFFLINE", 0),
       TheoreticalCheckResult("Traversable Wormhole Stabilizer", "THEORETICAL", 1),
       TheoreticalCheckResult("Warp Bubble Generator", "THEORETICAL", 0),
       TheoreticalCheckResult("Negative Energy Shell", "THEORETICAL", 0),
       TheoreticalCheckResult("Lattice Collapse Initiator", "THEORETICAL", 0),
       TheoreticalCheckResult("Destination Lock Computer", "THEORETICAL", 15000),
       TheoreticalCheckResult("Matter Reintegration Buffer", "THEORETICAL", 22500) >>
PropulsionRecords ==
    << TheoreticalCheckResult("RDE Core", "STANDBY", 78500),
       TheoreticalCheckResult("Hall Effect Thrusters", "STANDBY", 95200),
       TheoreticalCheckResult("MHD Accelerator", "THEORETICAL", 45000),
       TheoreticalCheckResult("Antimatter Containment", "THEORETICAL", 25000),
       TheoreticalCheckResult("Annihilation Chamber", "THEORETICAL", 15000) >>

RECURSIVE SumStability(_)
SumStability(records) ==
    IF records = <<>> THEN 0
    ELSE Head(records).stability_index + SumStability(Tail(records))

OperationalStatuses == {"NOMINAL", "STANDBY", "ACTIVE"}

(* What each run_check (run_full_check for the weapons) returns when the  *)
(* checker's list holds prior before the call.                            *)
AdvancedWeaponsReportOn(prior) ==
    LET results == prior \o AdvancedWeaponsRecords
    IN  [results |-> results, count |-> Len(results)]
PhaseShiftingReportOn(prior) ==
    LET results == prior \o PhaseShiftingRecords
    IN  [results |-> results, avg_stability |-> SumStability(results) \div Len(results)]
CloakingReportOn(prior) ==
    LET results == prior \o CloakingRecords
    IN  [ results |-> results,
          operational_count |->
              Cardinality({i \in 1..Len(results) : results[i].status \in OperationalStatuses}) ]
TeleportationReportOn(prior) ==
    [results |-> prior \o TeleportationRecords, trl |-> 0]
PropulsionReportOn(prior) ==
    [results |-> prior \o PropulsionRecords]


(* ------------------------------------------- the engine instance's calls *)
MaxEngineOps == 3

SampledEngineCheckOnWideRange(e, first) ==
    RunEngineCheckOn(e, Uniform(33000, 42000, first), Uniform(15000, 25000, first + 1),
                     Uniform(95000, 100000, first + 2), Uniform(18000, 25000, first + 3))
SampledEngineCheckOn(e, first) ==
    RunEngineCheckOn(e, Uniform(38000, 42000, first), Uniform(15000, 25000, first + 1),
                     Uniform(95000, 100000, first + 2), Uniform(18000, 25000, first + 3))

RunEngineCheck ==
    /\ ops < MaxEngineOps
    /\ LET r == SampledEngineCheckOn(engine, 1)
       IN  /\ heap' = Append(heap, r.checks)
           /\ engine' = [r.after EXCEPT !.check_results = Len(heap) + 1]
           /\ rets' = Append(rets, [kind |-> "engine_report", op |-> "run_engine_check",
                                    result |-> r.result,
                                    ref |-> Len(heap) + 1,
                                    at_return |-> r.checks])
    /\ rng' = Advance(EngineCheckDraws)
    /\ ops' = ops + 1
    /\ UNCHANGED <<checker, weapons, saber, main, fn_in, fn_out>>

StartupSequence ==
    /\ ops < MaxEngineOps
    /\ engine' = StartupSequenceOn(engine)
    /\ rets' = Append(rets, [kind |-> "bool", op |-> "startup_sequence", value |-> TRUE])
    /\ ops' = ops + 1
    /\ UNCHANGED <<rng, heap, checker, weapons, saber, main, fn_in, fn_out>>

ShutdownSequence ==
    /\ ops < MaxEngineOps
    /\ engine' = ShutdownSequenceOn(engine)
    /\ rets' = Append(rets, [kind |-> "bool", op |-> "shutdown_sequence", value |-> TRUE])
    /\ ops' = ops + 1
    /\ UNCHANGED <<rng, heap, checker, weapons, saber, main, fn_in, fn_out>>

(* The module function: the engine is the call's own and is held here     *)
(* only as it was when the call returned.                                 *)
RunEngineCheckAndStartup ==
    /\ ops < MaxEngineOps
    /\ LET r == RunEngineCheckAndStartupOn(Uniform(38000, 42000, 1), Uniform(15000, 25000, 2),
                                           Uniform(95000, 100000, 3), Uniform(18000, 25000, 4))
       IN  /\ heap' = Append(heap, r.checks)
           /\ rets' = Append(rets, [kind |-> "startup_report", op |-> "run_engine_check_and_startup",
                                    result |-> r.result,
                                    engine |-> r.engine,
                                    ref |-> Len(heap) + 1,
                                    at_return |-> r.checks])
    /\ rng' = Advance(EngineCheckDraws)
    /\ ops' = ops + 1
    /\ UNCHANGED <<checker, weapons, engine, saber, main, fn_in, fn_out>>

(* -------------------------------------------- the saber instance's calls *)
MaxSaberOps == 4
OperatorIds == {"KELLY-BJK-001", "KELLY-001"}

SaberCall(name, r, draws) ==
    /\ ops < MaxSaberOps
    /\ saber' = r.after
    /\ rets' = Append(rets, [kind |-> "saber_result", op |-> name, result |-> r.result])
    /\ rng' = Advance(draws)
    /\ ops' = ops + 1
    /\ UNCHANGED <<heap, checker, weapons, engine, main, fn_in, fn_out>>

RunComponentDiagnostics ==
    SaberCall("run_component_diagnostics", SampledDiagnosticsOn(saber, 1), DiagnosticsDraws)
RunAxiomImprintingCheck ==
    SaberCall("run_axiom_imprinting_check", RunAxiomImprintingCheckOn(saber), ImprintingDraws)
RunAttunementSimulation ==
    \E operator_id \in OperatorIds :
        SaberCall("run_attunement_simulation", SampledAttunementOn(saber, operator_id, 1),
                  AttunementDraws)
RunBladeFormationTest ==
    SaberCall("run_blade_formation_test", RunBladeFormationTestOn(saber),
              RunBladeFormationTestOn(saber).draws)
RunTacticalCapabilityTest ==
    SaberCall("run_tactical_capability_test", RunTacticalCapabilityTestOn(saber), 0)
RunBladeRetraction ==
    SaberCall("run_blade_retraction", RunBladeRetractionOn(saber), 0)
RunFullSystemCheck ==
    \E operator_id \in OperatorIds :
        SaberCall("run_full_system_check", RunFullSystemCheckOn(saber, operator_id, 1),
                  RunFullSystemCheckOn(saber, operator_id, 1).draws)


(* ================================================================ main.py *)
Sections ==
    << "conventional", "engine", "k1_saber", "theoretical_weapons", "phase_shifting",
       "cloaking", "teleportation", "propulsion", "summary", "done" >>

SectionIndex(section) == CHOOSE i \in 1..Len(Sections) : Sections[i] = section

(* run_complete_simulation runs its sections one after the other. *)
NextSectionUnlessWarned(section) ==
    IF section = "teleportation" /\ main.results.systems["conventional"].warnings > 0
    THEN "summary"
    ELSE Sections[SectionIndex(section) + 1]
NextSection(section) == Sections[SectionIndex(section) + 1]

(* print_final_summary, lines 281-309: the status shown for each system. *)
FinalSummaryOn(systems) ==
    [ conv_status |-> IF systems["conventional"].all_passed THEN "PASS" ELSE "FAIL",
      eng_status |-> IF systems["engine_check"].passed /\ systems["engine_startup"].success
                     THEN "PASS" ELSE "FAIL",
      k1_status |-> IF DOMAIN systems["k1_saber"] # {} THEN "OPERATIONAL" ELSE "FAIL",
      weap_count |-> systems["theoretical_weapons"].count,
      phase_stab |-> systems["phase_shifting"].avg_stability,
      cloak_ops |-> systems["cloaking"].operational_count ]

(* main, line 370: the exit status, from the truth value of the results   *)
(* dictionary.                                                            *)
MainExitCode(results) == IF DOMAIN results # {} THEN 0 ELSE 1

NewResults(operator_id) ==
    [aircraft_id |-> "F35-NEXUS-001", operator_id |-> operator_id, systems |-> <<>>]

(* The entries each section writes to results["systems"]. *)
ConventionalEntry(r) ==
    "conventional" :> [ total_checks |-> r.report.total_checks,
                        nominal |-> r.report.nominal,
                        warnings |-> r.report.warnings,
                        faults |-> r.report.faults,
                        overall_status |-> r.report.overall_status,
                        all_passed |-> r.report.all_passed,
                        results |-> r.after.list ]
EngineEntries(sec) ==
    IF sec.engine_shutdown = None
    THEN ("engine_check" :> sec.engine_check) @@ ("engine_startup" :> sec.engine_startup)
    ELSE ("engine_check" :> sec.engine_check) @@ ("engine_startup" :> sec.engine_startup)
             @@ ("engine_shutdown" :> sec.engine_shutdown[1])

MainStep(section, entries, draws) ==
    /\ main.pc = section
    /\ main' = [main EXCEPT !.pc = NextSection(section),
                            !.results.systems = entries @@ @]
    /\ rng' = Advance(draws)
    /\ UNCHANGED <<heap, checker, weapons, engine, saber, rets, ops, fn_in, fn_out>>

MainConventional ==
    MainStep("conventional", ConventionalEntry(RunFullCheckOn(NewChecker, 1)), FullCheckDraws)
MainEngine ==
    MainStep("engine",
             EngineEntries(EngineSectionOn(Uniform(38000, 42000, 1), Uniform(15000, 25000, 2),
                                           Uniform(95000, 100000, 3), Uniform(18000, 25000, 4))),
             EngineCheckDraws)
MainK1Saber ==
    MainStep("k1_saber",
             "k1_saber" :> RunFullSystemCheckOn(NewSaber, main.results.operator_id, 1).result,
             RunFullSystemCheckOn(NewSaber, main.results.operator_id, 1).draws)
MainTheoreticalWeapons ==
    MainStep("theoretical_weapons", "theoretical_weapons" :> AdvancedWeaponsReportOn(<<>>), 0)
MainPhaseShifting ==
    MainStep("phase_shifting", "phase_shifting" :> PhaseShiftingReportOn(<<>>), 0)
MainCloaking ==
    MainStep("cloaking", "cloaking" :> CloakingReportOn(<<>>), 0)
MainTeleportation ==
    MainStep("teleportation", "teleportation" :> TeleportationReportOn(<<>>), 0)
MainPropulsion ==
    MainStep("propulsion", "propulsion" :> PropulsionReportOn(<<>>), 0)

(* The final summary, the return of run_complete_simulation, and main's   *)
(* exit status.                                                           *)
MainSummary ==
    /\ main.pc = "summary"
    /\ main' = [main EXCEPT !.pc = "done",
                            !.summary = Some(FinalSummaryOn(main.results.systems)),
                            !.exit_code = Some(MainExitCode(main.results))]
    /\ UNCHANGED <<rng, heap, checker, weapons, engine, saber, rets, ops, fn_in, fn_out>>


(* ===================================== the functions on arbitrary inputs *)
(* The readings and record lists a caller or a test can hand to the       *)
(* classifiers, the summaries and the gated procedures: fn_in is the      *)
(* input, fn_out what the code computes from it.                          *)
NoValue == [kind |-> "none"]

InputRecords == {CheckResult("Main Power Bus", st, None) : st \in SystemStatus}
InputParameters == {EngineParameter("Fuel Pressure", 40000, 35000, 45000, st) : st \in EngineCheckStatus}

VoltageInputs == {268500, 269000, 270000, 271000, 271500}
FuelPressureInputs == {34000, 35000, 40000, 45000, 46000}

(* Every threshold check of the suite, with its bounds. *)
ThresholdChecks ==
    { "Main Power Bus", "Power Capacity", "System Efficiency", "Thermal Management",
      "Encryption Throughput", "Crypto Latency", "MADL Integrity", "Null-Steering Array",
      "Array Elements", "Quantum Glass HMD", "Field of View", "Photonic Processor",
      "Metasurface Tiles", "RCS Signature", "Fuel Pressure",
      "Hilt Chassis", "Harmonizing Resonator", "Dissonance Emitter",
      "Containment Emitter", "K1 Energy Cell" }

BoundsOf(check) ==
    CASE check = "Main Power Bus" -> {269000, 271000}
      [] check = "Power Capacity" -> {600000}
      [] check = "System Efficiency" -> {92000}
      [] check = "Thermal Management" -> {50000}
      [] check = "Encryption Throughput" -> {1200}
      [] check = "Crypto Latency" -> {18000}
      [] check = "MADL Integrity" -> {99990}
      [] check = "Null-Steering Array" -> {30000}
      [] check = "Array Elements" -> {60000}
      [] check = "Quantum Glass HMD" -> {12000}
      [] check = "Field of View" -> {150000}
      [] check = "Photonic Processor" -> {1000}
      [] check = "Metasurface Tiles" -> {95000}
      [] check = "RCS Signature" -> {-40000}
      [] check = "Fuel Pressure" -> {35000, 45000}
      [] check = "Hilt Chassis" -> {95000}
      [] check = "Harmonizing Resonator" -> {99900}
      [] check = "Dissonance Emitter" -> {99500}
      [] check = "Containment Emitter" -> {99000}
      [] check = "K1 Energy Cell" -> {98000}

(* Whether the check's own comparison lets the reading v pass. *)
Passes(check, v) ==
    CASE check = "Main Power Bus" -> MainPowerBusStatus(v) = "NOMINAL"
      [] check = "Power Capacity" -> PowerCapacityStatus(v) = "NOMINAL"
      [] check = "System Efficiency" -> SystemEfficiencyStatus(v) = "NOMINAL"
      [] check = "Thermal Management" -> ThermalManagementStatus(v) = "NOMINAL"
      [] check = "Encryption Throughput" -> EncryptionThroughputStatus(v) = "NOMINAL"
      [] check = "Crypto Latency" -> CryptoLatencyStatus(v) = "NOMINAL"
      [] check = "MADL Integrity" -> MADLIntegrityStatus(v) = "NOMINAL"
      [] check = "Null-Steering Array" -> NullSteeringArrayStatus(v) = "NOMINAL"
      [] check = "Array Elements" -> ArrayElementsStatus(v) = "NOMINAL"
      [] check = "Quantum Glass HMD" -> QuantumGlassHMDStatus(v) = "NOMINAL"
      [] check = "Field of View" -> FieldOfViewStatus(v) = "NOMINAL"
      [] check = "Photonic Processor" -> PhotonicProcessorStatus(v) = "NOMINAL"
      [] check = "Metasurface Tiles" -> MetasurfaceTilesStatus(v) = "NOMINAL"
      [] check = "RCS Signature" -> RCSSignatureStatus(v) = "NOMINAL"
      [] check = "Fuel Pressure" -> FuelPressureStatus(v) = "PASS"
      [] check = "Hilt Chassis" -> HiltPassed(v) /\ HiltStatus(v) = "ATTUNED"
      [] check = "Harmonizing Resonator" -> ResonatorPassed(v)
      [] check = "Dissonance Emitter" -> EmitterPassed(v)
      [] check = "Containment Emitter" -> ContainmentPassed(v)
      [] check = "K1 Energy Cell" -> CellPassed(v)

(* The status the check's code assigns for the reading v: the record's     *)
(* status, or for the saber the component's (only the hilt's depends on   *)
(* the reading).                                                          *)
StatusOf(check, v) ==
    CASE check = "Main Power Bus" -> MainPowerBusStatus(v)
      [] check = "Power Capacity" -> PowerCapacityStatus(v)
      [] check = "System Efficiency" -> SystemEfficiencyStatus(v)
      [] check = "Thermal Management" -> ThermalManagementStatus(v)
      [] check = "Encryption Throughput" -> EncryptionThroughputStatus(v)
      [] check = "Crypto Latency" -> CryptoLatencyStatus(v)
      [] check = "MADL Integrity" -> MADLIntegrityStatus(v)
      [] check = "Null-Steering Array" -> NullSteeringArrayStatus(v)
      [] check = "Array Elements" -> ArrayElementsStatus(v)
      [] check = "Quantum Glass HMD" -> QuantumGlassHMDStatus(v)
      [] check = "Field of View" -> FieldOfViewStatus(v)
      [] check = "Photonic Processor" -> PhotonicProcessorStatus(v)
      [] check = "Metasurface Tiles" -> MetasurfaceTilesStatus(v)
      [] check = "RCS Signature" -> RCSSignatureStatus(v)
      [] check = "Fuel Pressure" -> FuelPressureStatus(v)
      [] check = "Hilt Chassis" -> HiltStatus(v)
      [] OTHER -> "ATTUNED"

SummaryInputs ==
    {[kind |-> "summary", records |-> r] : r \in SeqsUpTo(InputRecords, MaxSummaryLen)}
EngineSummaryInputs ==
    {[kind |-> "engine_summary", records |-> r] : r \in SeqsUpTo(InputParameters, MaxSummaryLen)}
ClassifyInputs ==
    UNION { {[kind |-> "classify", check |-> c, value |-> b + d] : b \in BoundsOf(c), d \in {-1, 0, 1}}
            : c \in ThresholdChecks }
PowerPairInputs ==
    {[kind |-> "power_pair", v1 |-> v1, v2 |-> v2] : v1 \in VoltageInputs, v2 \in VoltageInputs}
FoldInputs ==
    {[kind |-> "fold", records |-> r, fuel_press |-> fp] :
        r \in SeqsUpTo(InputRecords, 1), fp \in FuelPressureInputs}
StartupInputs ==
    {[kind |-> "startup", fuel_press |-> fp, oil_level |-> ol] :
        fp \in FuelPressureInputs, ol \in {95000, 100000}}

Apply(kind, out) ==
    /\ fn_in.kind = kind
    /\ fn_out = NoValue
    /\ fn_out' = out
    /\ UNCHANGED <<rng, heap, checker, weapons, engine, saber, rets, ops, main, fn_in>>

ApplySummary == Apply("summary", [kind |-> "summary", summary |-> Summarize(fn_in.records)])
ApplyEngineSummary ==
    Apply("engine_summary", [kind |-> "engine_summary", summary |-> EngineSummary(fn_in.records)])
ApplyClassify ==
    Apply("classify", [kind |-> "classify", passes |-> Passes(fn_in.check, fn_in.value),
                       status |-> StatusOf(fn_in.check, fn_in.value)])

(* Two power readings classified, logged on a new checker and summarised. *)
PowerPairOn(v1, v2) ==
    LET records == << CheckResult("Main Power Bus", MainPowerBusStatus(v1), Some(v1)),
                      CheckResult("Main Power Bus", MainPowerBusStatus(v2), Some(v2)) >>
        after == LogAll(NewChecker, records)
    IN  [kind |-> "power_pair", records |-> after.list, summary |-> Summarize(after.list)]
ApplyPowerPair == Apply("power_pair", PowerPairOn(fn_in.v1, fn_in.v2))

(* run_complete_simulation and main over a conventional report built from *)
(* the given records and an engine section with the given fuel pressure.  *)
FoldOn(records, fuel_press) ==
    LET after == LogAll(NewChecker, records)
        s == Summarize(after.list)
        conventional == [ after |-> after,
                          report |-> [ total_checks |-> after.systems_checked,
                                       nominal |-> s.nominal, warnings |-> s.warnings,
                                       faults |-> s.faults, overall_status |-> s.overall_status,
                                       all_passed |-> after.all_passed ] ]
        systems == ConventionalEntry(conventional)
                     @@ EngineEntries(EngineSectionOn(fuel_press, 20000, 97500, 20000))
                     @@ ("k1_saber" :> RunFullSystemCheckOn(NewSaber, "KELLY-001", 1).result)
                     @@ ("theoretical_weapons" :> AdvancedWeaponsReportOn(<<>>))
                     @@ ("phase_shifting" :> PhaseShiftingReportOn(<<>>))
                     @@ ("cloaking" :> CloakingReportOn(<<>>))
                     @@ ("teleportation" :> TeleportationReportOn(<<>>))
                     @@ ("propulsion" :> PropulsionReportOn(<<>>))
        results == [NewResults("KELLY-001") EXCEPT !.systems = systems]
    IN  [ kind |-> "fold",
          conventional |-> systems["conventional"],
          engine_check |-> systems["engine_check"],
          summary |-> FinalSummaryOn(systems),
          exit_code |-> MainExitCode(results) ]
ApplyFold == Apply("fold", FoldOn(fn_in.records, fn_in.fuel_press))

(* The two callers of startup_sequence on a check with the given readings. *)
StartupOn(fuel_press, oil_level) ==
    [ kind |-> "startup",
      function |-> RunEngineCheckAndStartupOn(fuel_press, 20000, oil_level, 20000),
      section |-> EngineSectionOn(fuel_press, 20000, oil_level, 20000) ]
ApplyStartup == Apply("startup", StartupOn(fn_in.fuel_press, fn_in.oil_level))

(* The CheckResult dataclass called with a name, a status and a message:  *)
(* the generated __init__ stores its arguments as they are. A status is   *)
(* a member of SystemStatus, a member of another enumeration, or a plain  *)
(* string.                                                                *)
OtherStatuses == {"EngineCheckStatus.PASS", "str"}
ConstructCheckResult(system_name, status, message) ==
    [ outcome |-> "created",
      record |-> [system_name |-> system_name, status |-> status, message |-> message,
                  value |-> None] ]

(* A call of _log_check: the record is appended and counted (lines 55-56) *)
(* before line 59 reads result.status.value, which a plain string has not.*)
LogCheckCallOn(st, result) ==
    [ after |-> LogCheckOn(st, result),
      outcome |-> IF result.status = "str" THEN "AttributeError" ELSE "return" ]

ConstructInputs ==
    {[kind |-> "construct", system_name |-> n, status |-> s, message |-> m] :
        n \in {"", "Main Power Bus"}, s \in SystemStatus \cup OtherStatuses,
        m \in {"", "270.0V nominal"}}
ConstructOn(system_name, status, message) ==
    LET c == ConstructCheckResult(system_name, status, message)
    IN  [ kind |-> "construct",
          construction |-> c,
          logged |-> IF c.outcome = "created"
                     THEN LogCheckCallOn(NewChecker, c.record)
                     ELSE [after |-> NewChecker, outcome |-> "not called"] ]
ApplyConstruct == Apply("construct", ConstructOn(fn_in.system_name, fn_in.status, fn_in.message))

(* The records run_engine_check makes of given readings, and those of the *)
(* groups of F35SystemChecker that hold checks with a fixed status.       *)
ReadingInputs ==
    {[kind |-> "readings", fuel_press |-> fp, fuel_temp |-> ft, oil_level |-> ol,
      oil_temp |-> ot, throughput |-> tp] :
        fp \in {40000, 46000}, ft \in {-41000, 20000, 61000},
        ol \in {79000, 97500, 101000}, ot \in {-41000, 20000, 151000},
        tp \in {1100, 1250}}
ReadingsOn(fuel_press, fuel_temp, oil_level, oil_temp, throughput) ==
    [ kind |-> "readings",
      engine |-> EngineCheckRecords(fuel_press, fuel_temp, oil_level, oil_temp),
      records |-> CryptoRecords(throughput, 17000) \o PilotRecords(11000, 150000, 1000)
                    \o WeaponsRecords \o MaterialsRecords(99000, -41000) ]
ApplyReadings ==
    Apply("readings", ReadingsOn(fn_in.fuel_press, fn_in.fuel_temp, fn_in.oil_level,
                                 fn_in.oil_temp, fn_in.throughput))

(* run_full_check on a checker that holds the given records, and         *)
(* run_engine_check and run_engine_check_and_startup on a check with the  *)
(* given fuel pressure: what each call returns.                           *)
VerdictInputs ==
    {[kind |-> "verdict", records |-> r, fuel_press |-> fp] :
        r \in SeqsUpTo(InputRecords, 1), fp \in FuelPressureInputs}
VerdictOn(records, fuel_press) ==
    LET full == RunFullCheckOn(LogAll(NewChecker, records), 1)
    IN  [ kind |-> "verdict",
          full_check |-> [report |-> full.report, results |-> full.after.list],
          engine_check |-> RunEngineCheckOn(NewEngine, fuel_press, 20000, 97500, 20000),
          function |-> RunEngineCheckAndStartupOn(fuel_press, 20000, 97500, 20000) ]
ApplyVerdict == Apply("verdict", VerdictOn(fn_in.records, fn_in.fuel_press))

(* ======================================================== specifications *)
InitObjects ==
    /\ heap = << <<>>, <<>>, <<>> >>
    /\ checker = [check_results |-> 1, systems_checked |-> 0, all_passed |-> TRUE]
    /\ weapons = [results |-> 2]
    /\ engine = NewEngine @@ [check_results |-> 3]
    /\ saber = NewSaber
    /\ rets = <<>>
    /\ ops = 0

Tapes == [1..TapeLen -> {0, 1}]

InitIdle ==
    /\ InitObjects
    /\ main = [pc |-> "idle", results |-> NewResults("KELLY-001"),
               summary |-> None, exit_code |-> None]
    /\ fn_in = NoValue
    /\ fn_out = NoValue

(* The F-35 checker under any sequence of calls. *)
InitChecker == InitIdle /\ rng \in [tape : Tapes, pos : {0}]
NextChecker ==
    \/ CheckPowerSystem
    \/ CheckCryptoModule
    \/ CheckEwSuite
    \/ CheckPilotInterface
    \/ CheckWeaponsSystems
    \/ CheckMaterialsIntegrity
    \/ LogCheck
    \/ RunFullCheck
SpecChecker == InitChecker /\ [][NextChecker]_vars

(* The advanced weapons checker under any sequence of calls. *)
NextWeapons ==
    \/ CheckDirectedEnergyWeapons
    \/ CheckEmpSystems
    \/ CheckPlasmaWeapons
    \/ CheckQuantumWeapons
    \/ CheckGravitonWeapons
    \/ AdvancedWeaponsRunFullCheck
SpecWeapons == InitChecker /\ [][NextWeapons]_vars

(* The engine simulator under any sequence of calls. *)
NextEngine ==
    \/ RunEngineCheck
    \/ StartupSequence
    \/ ShutdownSequence
    \/ RunEngineCheckAndStartup
SpecEngine == InitChecker /\ [][NextEngine]_vars

(* The F-35 checker and the engine simulator under the calls that sample *)
(* their own readings.                                                    *)
NextSampled ==
    \/ CheckPowerSystem
    \/ CheckCryptoModule
    \/ CheckEwSuite
    \/ CheckPilotInterface
    \/ CheckWeaponsSystems
    \/ CheckMaterialsIntegrity
    \/ RunFullCheck
    \/ RunEngineCheck
    \/ RunEngineCheckAndStartup
SpecSampled == InitChecker /\ [][NextSampled]_vars

(* The saber under any sequence of calls. *)
NextSaber ==
    \/ RunComponentDiagnostics
    \/ RunAxiomImprintingCheck
    \/ RunAttunementSimulation
    \/ RunBladeFormationTest
    \/ RunTacticalCapabilityTest
    \/ RunBladeRetraction
    \/ RunFullSystemCheck
SpecSaber == InitChecker /\ [][NextSaber]_vars

(* One run of main. *)
InitMain ==
    /\ InitObjects
    /\ rng \in [tape : Tapes, pos : {0}]
    /\ \E operator_id \in OperatorIds :
         main = [pc |-> "conventional", results |-> NewResults(operator_id),
                 summary |-> None, exit_code |-> None]
    /\ fn_in = NoValue
    /\ fn_out = NoValue
NextMain ==
    \/ MainConventional
    \/ MainEngine
    \/ MainK1Saber
    \/ MainTheoreticalWeapons
    \/ MainPhaseShifting
    \/ MainCloaking
    \/ MainTeleportation
    \/ MainPropulsion
    \/ MainSummary
SpecMain == InitMain /\ [][NextMain]_vars

(* The functions applied to every input of the bounded sets. *)
InitPure ==
    /\ InitObjects
    /\ rng = [tape |-> [i \in 1..TapeLen |-> 0], pos |-> 0]
    /\ main = [pc |-> "idle", results |-> NewResults("KELLY-001"),
               summary |-> None, exit_code |-> None]
    /\ \/ fn_in \in SummaryInputs
       \/ fn_in \in EngineSummaryInputs
       \/ fn_in \in ClassifyInputs
       \/ fn_in \in PowerPairInputs
       \/ fn_in \in FoldInputs
       \/ fn_in \in StartupInputs
       \/ fn_in \in VerdictInputs
       \/ fn_in \in ConstructInputs
       \/ fn_in \in ReadingInputs
    /\ fn_out = NoValue
NextPure ==
    \/ ApplySummary
    \/ ApplyEngineSummary
    \/ ApplyClassify
    \/ ApplyPowerPair
    \/ ApplyFold
    \/ ApplyStartup
    \/ ApplyVerdict
    \/ ApplyConstruct
    \/ ApplyReadings
SpecPure == InitPure /\ [][NextPure]_vars

Spec == SpecChecker


(* ================================================================ claims *)

(* C1: for every record list (empty, one record, several with faults at   *)
(* any position) the verdict of the summary step of run_full_check and of *)
(* run_engine_check is FAIL if and only if some record has the status     *)
(* FAULT (FAIL for the engine), and PASS otherwise.                       *)
HasStatus(records, st) == \E i \in 1..Len(records) : records[i].status = st
C1_VerdictFailIffFault ==
    /\ fn_out.kind = "summary" =>
          /\ fn_out.summary.overall_status = "FAIL" <=> HasStatus(fn_in.records, "FAULT")
          /\ fn_out.summary.overall_status = "PASS" <=> ~HasStatus(fn_in.records, "FAULT")
    /\ fn_out.kind = "engine_summary" =>
          /\ fn_out.summary.status = "FAIL" <=> HasStatus(fn_in.records, "FAIL")
          /\ fn_out.summary.status = "PASS" <=> ~HasStatus(fn_in.records, "FAIL")
          /\ fn_out.summary.passed <=> ~HasStatus(fn_in.records, "FAIL")
C1_Witness ==
    /\ fn_out.kind = "summary"
    /\ Len(fn_in.records) = 3
    /\ fn_in.records[1].status = "NOMINAL"
    /\ fn_in.records[2].status = "FAULT"
    /\ fn_in.records[3].status = "WARNING"
    /\ fn_out.summary.overall_status = "FAIL"

(* C2: in every report of run_full_check the counts nominal, warnings and *)
(* faults sum to total_checks, the number of records, whatever statuses   *)
(* the records logged through _log_check have.                            *)
C2_CountsSumToTotal ==
    \A i \in 1..Len(rets) :
        rets[i].kind = "report" =>
            /\ rets[i].report.total_checks = Len(rets[i].at_return)
            /\ rets[i].report.nominal + rets[i].report.warnings + rets[i].report.faults
                  = rets[i].report.total_checks

C4_PowerBusScenario ==
    fn_out.kind = "power_pair" =>
        /\ fn_out.records[1].value = Some(fn_in.v1)
        /\ fn_out.records[2].value = Some(fn_in.v2)
        /\ \A i \in 1..2 :
              LET v == fn_out.records[i].value[1]
              IN  /\ (269000 <= v /\ v <= 271000) => fn_out.records[i].status = "NOMINAL"
                  /\ (v < 269000 \/ v > 271000) => fn_out.records[i].status = "WARNING"
        /\ {fn_out.records[1].status, fn_out.records[2].status} = {"NOMINAL", "WARNING"} =>
              /\ fn_out.summary.overall_status = "PASS"
              /\ fn_out.summary.nominal = 1
              /\ fn_out.summary.warnings = 1
              /\ fn_out.summary.faults = 0
C4_Witness ==
    /\ fn_out.kind = "power_pair"
    /\ fn_in.v1 = 270000
    /\ fn_in.v2 = 268500
    /\ fn_out.records[1].status = "NOMINAL"
    /\ fn_out.records[2].status = "WARNING"
    /\ fn_out.summary.overall_status = "PASS"

(* C5: a run_full_check that follows another on the same checker returns  *)
(* a report of that run alone: 21 checks and 21 records.                  *)
C5_SecondRunIsFresh ==
    \A i \in 2..Len(rets) :
        (rets[i].kind = "report" /\ rets[i - 1].kind = "report") =>
            /\ rets[i].report.total_checks = 21
            /\ Len(rets[i].at_return) = 21

(* C6: two calls of the same group return distinct sequences, and the     *)
(* sequence the first call returned is as it was returned after the       *)
(* second call.                                                           *)
C6_RepeatedGroupIndependent ==
    \A i, j \in 1..Len(rets) :
        (i < j /\ rets[i].kind = "records" /\ rets[j].kind = "records"
               /\ rets[i].op = rets[j].op) =>
            /\ rets[i].ref # rets[j].ref
            /\ heap[rets[i].ref] = rets[i].at_return

C8_StartupGated ==
    fn_out.kind = "startup" =>
        LET f == fn_out.function
            s == fn_out.section
        IN  /\ f.result.check_result.passed <=> f.result.check_result.status = "PASS"
            /\ f.result.check_result.passed <=> (35000 <= fn_in.fuel_press /\ fn_in.fuel_press <= 45000)
            /\ (f.engine.phases # <<>>) <=> f.result.check_result.passed
            /\ f.result.success <=> f.result.check_result.passed
            /\ ~f.result.check_result.passed =>
                  f.engine.state = "OFF" /\ ~f.engine.startup_complete
            /\ (s.engine.phases # <<>>) <=> s.engine_check.passed
            /\ s.engine_startup.success <=> s.engine_check.passed
            /\ ~s.engine_check.passed =>
                  s.engine.state = "OFF" /\ ~s.engine.startup_complete
C8_Witness ==
    /\ fn_out.kind = "startup"
    /\ fn_in.fuel_press = 46000
    /\ fn_out.function.result.check_result.status = "FAIL"
    /\ fn_out.function.engine.state = "OFF"
    /\ fn_out.function.engine.phases = <<>>
    /\ ~fn_out.function.result.success
    /\ ~fn_out.section.engine_startup.success

(* C9: every group of run_full_check and every section of                 *)
(* run_complete_simulation has run when the run is done, whatever the     *)
(* earlier groups and sections produced.                                  *)
GroupNames ==
    { "Main Power Bus", "Power Capacity", "System Efficiency", "Thermal Management",
      "Encryption Throughput", "Crypto Latency", "Key Store", "Type 1 Cert",
      "MADL Integrity", "Null-Steering Array", "Array Elements",
      "Quantum Glass HMD", "Field of View", "Photonic Processor", "Ghostmark DSS",
      "Weapons Bay Doors", "Fire Control System", "HYPER-HAWK Interface",
      "Self-Healing Composites", "Metasurface Tiles", "RCS Signature" }
C9_EverySectionRuns ==
    main.pc = "done" =>
        LET systems == main.results.systems
            records == systems["conventional"].results
        IN  /\ { "conventional", "engine_check", "engine_startup", "k1_saber",
                 "theoretical_weapons", "phase_shifting", "cloaking", "teleportation",
                 "propulsion" } \subseteq DOMAIN systems
            /\ Len(records) = 21
            /\ {records[i].system_name : i \in 1..Len(records)} = GroupNames
            /\ Len(systems["theoretical_weapons"].results) = 10
            /\ Len(systems["phase_shifting"].results) = 6
            /\ Len(systems["cloaking"].results) = 10
            /\ Len(systems["teleportation"].results) = 12
            /\ Len(systems["propulsion"].results) = 5
C9_Witness ==
    /\ main.pc = "done"
    /\ main.results.systems["conventional"].warnings > 0
    /\ main.results.systems["conventional"].results[2].status = "WARNING"
    /\ "propulsion" \in DOMAIN main.results.systems

(* C10: a status is fixed when its record or component is constructed and *)
(* never assigned again: every component of the saber has the status it   *)
(* was constructed with.                                                  *)
C10_StatusNeverMutated ==
    \A k \in ComponentKeys : saber.components[k].status = NewSaber.components[k].status

C12_GroupReturnsOwnRecords ==
    \A i \in 1..Len(rets) :
        rets[i].kind = "records" => rets[i].at_return = rets[i].produced

(* C13: the records a run of run_full_check adds to the report are those  *)
(* of power (4), crypto (4), EW suite (3), pilot interface (4), weapons   *)
(* (3) and materials (3), in this order, each group's records contiguous  *)
(* and in the order they were checked.                                    *)
FullCheckOrder ==
    << "Main Power Bus", "Power Capacity", "System Efficiency", "Thermal Management",
       "Encryption Throughput", "Crypto Latency", "Key Store", "Type 1 Cert",
       "MADL Integrity", "Null-Steering Array", "Array Elements",
       "Quantum Glass HMD", "Field of View", "Photonic Processor", "Ghostmark DSS",
       "Weapons Bay Doors", "Fire Control System", "HYPER-HAWK Interface",
       "Self-Healing Composites", "Metasurface Tiles", "RCS Signature" >>
C13_FullCheckOrder ==
    \A i \in 1..Len(rets) :
        rets[i].kind = "report" =>
            LET list == rets[i].at_return
                n == Len(list)
            IN  /\ n >= 21
                /\ \A k \in 1..21 : list[n - 21 + k].system_name = FullCheckOrder[k]
C13_Witness ==
    \E i \in 1..Len(rets) :
        /\ rets[i].kind = "report"
        /\ Len(rets[i].at_return) = 21
        /\ rets[i].at_return[6].status = "WARNING"
        /\ rets[i].at_return[21].system_name = "RCS Signature"

(* C14: appending a record adds one element at the end of the list and    *)
(* leaves the records before it and their order as they were: every step  *)
(* keeps the old list of each checker as a prefix of the new one, and a   *)
(* call of _log_check makes the list one longer, also when the name of    *)
(* the record is in the list already.                                     *)
IsPrefix(old, new) == Len(old) <= Len(new) /\ SubSeq(new, 1, Len(old)) = old
C15_FailIsReturned ==
    fn_out.kind = "verdict" =>
        LET r == fn_out.full_check.report
            e == fn_out.engine_check
            f == fn_out.function.result
        IN  /\ HasStatus(fn_in.records, "FAULT") =>
                  /\ {"total_checks", "nominal", "warnings", "faults",
                       "overall_status", "all_passed"} \subseteq DOMAIN r
                  /\ r.overall_status = "FAIL"
                  /\ r.faults = 1
                  /\ ~r.all_passed
                  /\ Len(fn_out.full_check.results) = 22
            /\ (fn_in.fuel_press < 35000 \/ fn_in.fuel_press > 45000) =>
                  /\ {"status", "passed"} \subseteq DOMAIN e.result
                  /\ e.result.status = "FAIL"
                  /\ ~e.result.passed
                  /\ Len(e.checks) = 4
                  /\ {"check_result", "success", "message"} \subseteq DOMAIN f
                  /\ ~f.success
                  /\ f.check_result = e.result
C15_Witness ==
    /\ fn_out.kind = "verdict"
    /\ fn_in.fuel_press = 46000
    /\ HasStatus(fn_in.records, "FAULT")
    /\ fn_out.full_check.report.overall_status = "FAIL"
    /\ fn_out.function.result.check_result.status = "FAIL"
    /\ ~fn_out.function.result.success

(* C16: constructing a record with a status outside the enumeration, an  *)
(* empty name or an empty message fails with an InvalidArgument error and *)
(* no record is created or appended; with valid arguments it succeeds.    *)
C16_InvalidRecordRejected ==
    fn_out.kind = "construct" =>
        LET valid == /\ fn_in.status \in SystemStatus
                     /\ fn_in.system_name # ""
                     /\ fn_in.message # ""
        IN  /\ valid => fn_out.construction.outcome = "created"
            /\ ~valid => /\ fn_out.construction.outcome = "InvalidArgument"
                         /\ fn_out.logged.after.list = <<>>

(* C17: the Fuel Temperature, Oil Level and Oil Temperature records of    *)
(* run_engine_check have the status PASS wherever the value lies relative *)
(* to the record's limits, only Fuel Pressure being classified; and the   *)
(* qualitative checks of F35SystemChecker are NOMINAL and have no value.  *)
QualitativeChecks ==
    { "Key Store", "Type 1 Cert", "Ghostmark DSS", "Weapons Bay Doors",
      "Fire Control System", "HYPER-HAWK Interface", "Self-Healing Composites" }
C17_UnconditionalPass ==
    fn_out.kind = "readings" =>
        /\ fn_out.engine[1].status = "PASS" <=>
               (35000 <= fn_in.fuel_press /\ fn_in.fuel_press <= 45000)
        /\ fn_out.engine[2].value = fn_in.fuel_temp /\ fn_out.engine[2].status = "PASS"
        /\ fn_out.engine[3].value = fn_in.oil_level /\ fn_out.engine[3].status = "PASS"
        /\ fn_out.engine[4].value = fn_in.oil_temp /\ fn_out.engine[4].status = "PASS"
        /\ QualitativeChecks \subseteq
               {fn_out.records[i].system_name : i \in 1..Len(fn_out.records)}
        /\ \A i \in 1..Len(fn_out.records) :
               fn_out.records[i].system_name \in QualitativeChecks =>
                   /\ fn_out.records[i].status = "NOMINAL"
                   /\ fn_out.records[i].value = None
C17_Witness ==
    /\ fn_out.kind = "readings"
    /\ fn_out.engine[3].value < fn_out.engine[3].min_limit
    /\ fn_out.engine[3].status = "PASS"
    /\ fn_out.engine[4].value > fn_out.engine[4].max_limit
    /\ fn_out.engine[4].status = "PASS"
    /\ fn_out.records[1].status = "WARNING"
    /\ fn_out.records[3].status = "NOMINAL"

(* C18: a call of run_blade_formation_test on a saber whose attunement is *)
(* None or not BONDED returns success False with the error "Not attuned"  *)
(* and leaves blade_state and blade_length as they were; on a saber with  *)
(* a BONDED attunement it returns success True and leaves the blade       *)
(* STABLE at target_blade_length.                                         *)
C18_FormationNeedsAttunement ==
    [][ (Len(rets') = Len(rets) + 1 /\ rets'[Len(rets')].op = "run_blade_formation_test") =>
          LET res == rets'[Len(rets')].result
          IN  IF saber.attunement = None \/ saber.attunement[1].state # "BONDED"
              THEN /\ ~res.success
                   /\ res.error = "Not attuned"
                   /\ saber'.blade_state = saber.blade_state
                   /\ saber'.blade_length = saber.blade_length
              ELSE /\ res.success
                   /\ saber'.blade_state = "STABLE"
                   /\ saber'.blade_length = saber'.target_blade_length ]_vars
C18_Witness ==
    /\ Len(rets) = 3
    /\ rets[1].op = "run_blade_formation_test"
    /\ ~rets[1].result.success
    /\ rets[2].op = "run_attunement_simulation"
    /\ rets[3].op = "run_blade_formation_test"
    /\ rets[3].result.success
    /\ saber.blade_state = "STABLE"
    /\ saber.blade_length = 1000

(* C19: a call of run_tactical_capability_test on a saber whose blade is  *)
(* not STABLE returns success False with the error "Blade not active" and *)
(* changes nothing; so every successful tactical test comes after a       *)
(* successful blade formation with no retraction between the two.         *)
C19_TacticalNeedsStableBlade ==
    /\ [][ (Len(rets') = Len(rets) + 1
              /\ rets'[Len(rets')].op = "run_tactical_capability_test"
              /\ saber.blade_state # "STABLE") =>
                 /\ ~rets'[Len(rets')].result.success
                 /\ rets'[Len(rets')].result.error = "Blade not active"
                 /\ saber' = saber ]_vars
    /\ [](\A i \in 1..Len(rets) :
            (rets[i].op = "run_tactical_capability_test" /\ rets[i].result.success) =>
                \E j \in 1..(i - 1) :
                    /\ rets[j].op = "run_blade_formation_test"
                    /\ rets[j].result.success
                    /\ \A k \in (j + 1)..(i - 1) :
                          rets[k].op \notin {"run_blade_retraction", "run_full_system_check"})
C19_Witness ==
    /\ Len(rets) = 4
    /\ rets[1].op = "run_attunement_simulation"
    /\ rets[2].op = "run_blade_formation_test"
    /\ rets[2].result.success
    /\ rets[3].op = "run_blade_retraction"
    /\ rets[4].op = "run_tactical_capability_test"
    /\ ~rets[4].result.success
    /\ saber.blade_state = "RETRACTED"

(* C20: a call of startup_sequence takes the engine state through         *)
(* BATTERY, APU_START, APU_RUNNING, FUEL_PRIMING, IGNITION,               *)
(* STARTER_ENGAGED, IDLE and RUNNING, in this order, each once; it        *)
(* returns True and leaves the state RUNNING and startup_complete True;   *)
(* the state FAULT is never entered.                                      *)
C20_StartupPhaseOrder ==
    /\ [][ (Len(rets') = Len(rets) + 1 /\ rets'[Len(rets')].op = "startup_sequence") =>
              /\ engine'.phases = engine.phases \o
                     << "BATTERY", "APU_START", "APU_RUNNING", "FUEL_PRIMING",
                        "IGNITION", "STARTER_ENGAGED", "IDLE", "RUNNING" >>
              /\ rets'[Len(rets')].value = TRUE
              /\ engine'.state = "RUNNING"
              /\ engine'.startup_complete ]_vars
    /\ [](/\ engine.state # "FAULT"
           /\ \A i \in 1..Len(engine.phases) : engine.phases[i] # "FAULT")
C20_Witness ==
    /\ Len(rets) = 3
    /\ rets[1].op = "startup_sequence"
    /\ rets[2].op = "shutdown_sequence"
    /\ rets[3].op = "startup_sequence"
    /\ Len(engine.phases) = 17
    /\ engine.phases[17] = "RUNNING"
    /\ engine.state = "RUNNING"
    /\ engine.startup_complete

(* C21: once a call has bonded the saber to an operator, operator_id is   *)
(* that operator's for good: no later call, a second attunement with      *)
(* another operator id included, changes it.                              *)
BondingCalls ==
    {i \in 1..Len(rets) : rets[i].op \in {"run_attunement_simulation", "run_full_system_check"}}
OperatorOf(ret) ==
    IF ret.op = "run_full_system_check" THEN ret.result.attunement.operator_id
    ELSE ret.result.operator_id
C21_BondIsPermanent ==
    BondingCalls # {} =>
        LET first == CHOOSE i \in BondingCalls : \A j \in BondingCalls : i <= j
        IN  /\ saber.attunement # None
            /\ saber.attunement[1].state = "BONDED"
            /\ saber.operator_id = Some(OperatorOf(rets[first]))

(* C22: all_passed of an F35SystemChecker is True exactly when            *)
(* check_results holds no FAULT record, and in every report of            *)
(* run_full_check all_passed is True exactly when overall_status is PASS. *)
C22_AllPassedIffNoFault ==
    /\ checker.all_passed <=> ~HasStatus(heap[checker.check_results], "FAULT")
    /\ \A i \in 1..Len(rets) :
          rets[i].kind = "report" =>
              /\ rets[i].report.all_passed <=> (rets[i].report.overall_status = "PASS")
              /\ rets[i].report.all_passed <=> ~HasStatus(rets[i].at_return, "FAULT")
C22_Witness ==
    /\ Len(rets) = 2
    /\ rets[1].op = "_log_check"
    /\ rets[2].kind = "report"
    /\ HasStatus(rets[2].at_return, "FAULT")
    /\ HasStatus(rets[2].at_return, "WARNING")
    /\ ~rets[2].report.all_passed
    /\ rets[2].report.overall_status = "FAIL"
    /\ ~checker.all_passed

(* C23: systems_checked equals the length of check_results after every   *)
(* call; a group call raises both by the number of its records (power 4,  *)
(* crypto 4, EW 3, pilot 4, weapons 3, materials 3), and run_full_check   *)
(* on a fresh checker reports total_checks of 21.                         *)
GroupSize(op) ==
    CASE op = "check_power_system" -> 4
      [] op = "check_crypto_module" -> 4
      [] op = "check_ew_suite" -> 3
      [] op = "check_pilot_interface" -> 4
      [] op = "check_weapons_systems" -> 3
      [] op = "check_materials_integrity" -> 3
C23_CallCounts ==
    Len(rets') = Len(rets) + 1 =>
        LET ret == rets'[Len(rets')]
            before == Len(heap[checker.check_results])
            now == Len(heap'[checker'.check_results])
        IN  /\ ret.kind = "records" =>
                  /\ now = before + GroupSize(ret.op)
                  /\ checker'.systems_checked = checker.systems_checked + GroupSize(ret.op)
                  /\ Len(ret.produced) = GroupSize(ret.op)
            /\ ret.kind = "report" =>
                  /\ ret.report.total_checks = checker'.systems_checked
                  /\ now = before + 21
                  /\ rets = <<>> => ret.report.total_checks = 21
C23_CounterMatchesList ==
    /\ [](checker.systems_checked = Len(heap[checker.check_results]))
    /\ [][C23_CallCounts]_vars
C23_Witness ==
    /\ Len(rets) = 2
    /\ rets[1].op = "check_crypto_module"
    /\ rets[2].kind = "report"
    /\ rets[2].report.total_checks = 25
    /\ checker.systems_checked = 25
    /\ Len(heap[checker.check_results]) = 25

(* C24: with the ranges the code samples no check comes out as a fault:  *)
(* every run_full_check reports faults 0, overall_status PASS and         *)
(* all_passed True, with warnings only on the checks whose range crosses  *)
(* the threshold; every run_engine_check gives 4 PASS records, status     *)
(* PASS and passed True, and the gated startup runs.                      *)
CrossingChecks ==
    { "Power Capacity", "System Efficiency", "Encryption Throughput", "Crypto Latency",
      "MADL Integrity", "Null-Steering Array", "Quantum Glass HMD", "Field of View",
      "Photonic Processor", "RCS Signature" }
WarningsOnlyWhereCrossing(records) ==
    \A i \in 1..Len(records) :
        /\ records[i].status \in {"NOMINAL", "WARNING"}
        /\ records[i].status = "WARNING" => records[i].system_name \in CrossingChecks
FourPass(records) ==
    /\ Len(records) = 4
    /\ \A i \in 1..4 : records[i].status = "PASS"
C24_SampledNeverFault ==
    \A i \in 1..Len(rets) :
        /\ rets[i].kind = "records" => WarningsOnlyWhereCrossing(rets[i].produced)
        /\ rets[i].kind = "report" =>
              /\ rets[i].report.faults = 0
              /\ rets[i].report.overall_status = "PASS"
              /\ rets[i].report.all_passed
              /\ WarningsOnlyWhereCrossing(rets[i].at_return)
              /\ i = 1 => rets[i].report.warnings \in 0..Cardinality(CrossingChecks)
        /\ rets[i].kind = "engine_report" =>
              /\ FourPass(rets[i].at_return)
              /\ rets[i].result.status = "PASS"
              /\ rets[i].result.passed
        /\ rets[i].kind = "startup_report" =>
              /\ FourPass(rets[i].at_return)
              /\ rets[i].result.check_result.passed
              /\ rets[i].result.success
              /\ rets[i].engine.state = "RUNNING"
              /\ rets[i].engine.startup_complete
C24_Witness ==
    /\ Len(rets) = 3
    /\ rets[1].kind = "report"
    /\ rets[1].report.warnings > 0
    /\ rets[1].report.faults = 0
    /\ rets[2].kind = "engine_report"
    /\ rets[2].result.passed
    /\ rets[3].kind = "startup_report"
    /\ rets[3].result.success

(* C25: after every call on an F135EngineSimulator startup_complete is   *)
(* True exactly when state is RUNNING; shutdown_sequence from any state,  *)
(* OFF without a startup included, ends with state OFF, startup_complete  *)
(* False and fuel flow and thrust 0; run_engine_check changes neither     *)
(* state nor startup_complete.                                            *)
C25_CallEffects ==
    Len(rets') = Len(rets) + 1 =>
        LET ret == rets'[Len(rets')]
        IN  /\ ret.op = "shutdown_sequence" =>
                  /\ engine'.state = "OFF"
                  /\ ~engine'.startup_complete
                  /\ engine'.ff = 0
                  /\ engine'.thrust = 0
            /\ ret.op = "run_engine_check" =>
                  /\ engine'.state = engine.state
                  /\ engine'.startup_complete = engine.startup_complete
            /\ ret.op = "startup_sequence" =>
                  /\ engine'.state = "RUNNING"
                  /\ engine'.startup_complete
C25_CompleteIffRunning ==
    /\ [](engine.startup_complete <=> engine.state = "RUNNING")
    /\ [](engine.state \in {"OFF", "RUNNING"})
    /\ [][C25_CallEffects]_vars
C25_Witness ==
    /\ Len(rets) = 3
    /\ rets[1].op = "startup_sequence"
    /\ rets[2].op = "run_engine_check"
    /\ rets[3].op = "shutdown_sequence"
    /\ engine.state = "OFF"
    /\ ~engine.startup_complete
    /\ engine.ff = 0
    /\ engine.thrust = 0
    /\ engine.phases[Len(engine.phases) - 1] = "RUNNING"

(* C26: after every call on a K1SaberSystem blade_state is RETRACTED or  *)
(* STABLE, blade_length is 0 exactly when RETRACTED and the target        *)
(* length exactly when STABLE (FORMING, CUTTING and DEFLECTING do not     *)
(* outlive the call that set them), and a successful tactical test leaves *)
(* the blade STABLE with its length unchanged.                            *)
C26_BladeShape ==
    /\ saber.blade_state \in {"RETRACTED", "STABLE"}
    /\ saber.blade_length = 0 <=> saber.blade_state = "RETRACTED"
    /\ saber.blade_length = saber.target_blade_length <=> saber.blade_state = "STABLE"
C26_TacticalEffect ==
    (/\ Len(rets') = Len(rets) + 1
     /\ rets'[Len(rets')].op = "run_tactical_capability_test"
     /\ rets'[Len(rets')].result.success) =>
        /\ saber.blade_state = "STABLE"
        /\ saber'.blade_state = "STABLE"
        /\ saber'.blade_length = saber.blade_length
C26_BladeStateAndLength ==
    /\ []C26_BladeShape
    /\ [][C26_TacticalEffect]_vars
C26_Witness ==
    /\ Len(rets) = 3
    /\ rets[1].op = "run_attunement_simulation"
    /\ rets[2].op = "run_blade_formation_test"
    /\ rets[2].result.success
    /\ rets[3].op = "run_tactical_capability_test"
    /\ rets[3].result.success
    /\ saber.blade_state = "STABLE"
    /\ saber.blade_length = saber.target_blade_length
    /\ saber.blade_length # 0

====
